---- MODULE Spec2Model ----
(***************************************************************************)
(* State-machine model of the SOCKS5 proxy of boost_socks5.cpp: the        *)
(* Server's accept loop, the Session's handshake / request / resolve /     *)
(* connect / reply steps and its two relay pumps, together with the peers  *)
(* (client, resolver, upstream) the Session's asynchronous operations talk *)
(* to.  Every asynchronous operation is modelled in two steps, as asio     *)
(* runs it: the operation completes (its result is fixed and the bytes are *)
(* moved), and later its completion handler runs.                          *)
(*                                                                         *)
(* Bytes are the integers 0..255; buffers are sequences, index i of the    *)
(* C++ code being element i+1 of the sequence.                             *)
(***************************************************************************)
EXTENDS Integers, Sequences, FiniteSets, TLC

\* ------------------------------------------------------------------ bounds

\* Payload bytes each peer sends once the relay is established.
MaxPayload == 2
\* The clients that connect one after the other in AcceptSpec.
MaxClients == 3
\* The configured buffer_size values explored (conf key "buffer_size").
BufferSizes == {1, 3, 8, 24}

\* ------------------------------------------------------- program constants

SOCKS_VERSION == 5
CMD_CONNECT == 1
ATYP_IPV4 == 1
ATYP_DOMAIN == 3
ATYP_IPV6 == 4
METHOD_NO_AUTH == 0
METHOD_NONE == 255
REP_SUCCEEDED == 0
MIN_GREETING == 3
MIN_REQUEST == 5
GREETING_REPLY_LEN == 2
IPV4_REQUEST_LEN == 10
IPV6_REQUEST_LEN == 22
IPV4_REPLY_LEN == 10
IPV6_REPLY_LEN == 22
ARGC_EXPECTED == 2
EXIT_USAGE == 1
EXIT_DEFAULT == 0

\* ------------------------------------------------------------- sequences

Min(a, b) == IF a < b THEN a ELSE b

Take(q, n) == SubSeq(q, 1, Min(n, Len(q)))

Drop(q, n) == SubSeq(q, Min(n, Len(q)) + 1, Len(q))

IsPrefix(p, q) == Len(p) <= Len(q) /\ SubSeq(q, 1, Len(p)) = p

Zeros(n) == [i \in 1..n |-> 0]

\* std::vector<char>(buffer_size): value-initialised, every element 0.
NewBuffer(n) == Zeros(n)

\* buf[i] of the code (0-based); an index outside the vector reads `oob`,
\* the value the out-of-range read happens to return.
At(buf, i, oob) == IF i < Len(buf) THEN buf[i + 1] ELSE oob

\* buf[i] = v of the code; a store outside the vector does not land in it.
Store(buf, i, v) == IF i < Len(buf) THEN [buf EXCEPT ![i + 1] = v] ELSE buf

\* std::memcpy(&buf[i], src, Len(src)).
RECURSIVE Memcpy(_, _, _)
Memcpy(buf, i, src) ==
    IF src = <<>> THEN buf
    ELSE Memcpy(Store(buf, i, Head(src)), i + 1, Tail(src))

\* A receive of `data` into asio::buffer(buf): the first bytes of buf.
Fill(buf, data) == data \o SubSeq(buf, Len(data) + 1, Len(buf))

\* asio::buffer(buf, n): at most n bytes, never more than the vector holds.
BufferView(buf, n) == Take(buf, n)

\* --------------------------------------------------------- conversions

\* Byte k (0 = least significant) of the unsigned integer x.
ByteOf(x, k) == (x \div (256 ^ k)) % 256

\* *(uint16_t*)&buf[i] and *(uint32_t*)&buf[i] on a little-endian host.
LoadU16(buf, i, oob) == At(buf, i, oob) + (256 * At(buf, i + 1, oob))

LoadU32(buf, i, oob) ==
    At(buf, i, oob) + (256 * At(buf, i + 1, oob))
    + (65536 * At(buf, i + 2, oob)) + (16777216 * At(buf, i + 3, oob))

\* ntohs / htons, ntohl / htonl on a little-endian host: byte swaps.
Ntohs(x) == (ByteOf(x, 0) * 256) + ByteOf(x, 1)

Ntohl(x) ==
    (ByteOf(x, 0) * 16777216) + (ByteOf(x, 1) * 65536)
    + (ByteOf(x, 2) * 256) + ByteOf(x, 3)

\* The bytes of a uint16_t / uint32_t in memory (little-endian host).
BytesU16(x) == <<ByteOf(x, 0), ByteOf(x, 1)>>

BytesU32(x) == <<ByteOf(x, 0), ByteOf(x, 1), ByteOf(x, 2), ByteOf(x, 3)>>

\* asio::ip::address_v4( uint ).to_string(): dotted quad.
AddressV4ToString(u) ==
    ToString(ByteOf(u, 3)) \o "." \o ToString(ByteOf(u, 2))
    \o "." \o ToString(ByteOf(u, 1)) \o "." \o ToString(ByteOf(u, 0))

HexDigit(d) ==
    CASE d < 10 -> ToString(d)
      [] d = 10 -> "a" [] d = 11 -> "b" [] d = 12 -> "c"
      [] d = 13 -> "d" [] d = 14 -> "e" [] OTHER -> "f"

\* "%x" of a 16-bit word.
RECURSIVE HexStr(_)
HexStr(w) == IF w < 16 THEN HexDigit(w) ELSE HexStr(w \div 16) \o HexDigit(w % 16)

\* The eight 16-bit words of 16 address bytes (network order).
WordsOf(b) == [k \in 1..8 |-> (b[(2 * k) - 1] * 256) + b[2 * k]]

\* Length of the run of zero words starting at word k.
RECURSIVE ZeroRun(_, _)
ZeroRun(w, k) == IF k > 8 \/ w[k] # 0 THEN 0 ELSE 1 + ZeroRun(w, k + 1)

\* Start of the first longest run of at least two zero words, 0 if none.
BestRun(w) ==
    LET cand == {k \in 1..8 : ZeroRun(w, k) >= 2
                              /\ \A j \in 1..8 : ZeroRun(w, j) <= ZeroRun(w, k)}
    IN IF cand = {} THEN 0 ELSE CHOOSE k \in cand : \A j \in cand : k <= j

RECURSIVE V6Text(_, _, _)
V6Text(w, k, best) ==
    IF k > 8 THEN ""
    ELSE IF best # 0 /\ k = best
         THEN (IF k = 1 THEN ":" ELSE "") \o ":" \o V6Text(w, k + ZeroRun(w, best), best)
    ELSE HexStr(w[k]) \o (IF k < 8 THEN ":" ELSE "") \o V6Text(w, k + 1, best)

\* asio::ip::address_v6( bytes ).to_string(): inet_ntop's text form, the
\* longest run of zero words written "::" and an IPv4-compatible or
\* IPv4-mapped address written with a dotted-quad tail.
AddressV6ToString(b) ==
    LET w == WordsOf(b)
        best == BestRun(w)
        run == IF best = 0 THEN 0 ELSE ZeroRun(w, best)
        quad == ToString(b[13]) \o "." \o ToString(b[14]) \o "."
                \o ToString(b[15]) \o "." \o ToString(b[16])
    IN IF best = 1 /\ (run = 6 \/ (run = 7 /\ w[8] # 1)) THEN "::" \o quad
       ELSE IF best = 1 /\ run = 5 /\ w[6] = 65535 THEN "::ffff:" \o quad
       ELSE V6Text(w, 1, best)

\* The characters the modelled host names are made of.
Chr(c) == CASE c = 97 -> "a" [] c = 98 -> "b" [] c = 46 -> "." [] OTHER -> "?"

\* std::string( &buf[i], n ).
RECURSIVE StringAt(_, _, _, _)
StringAt(buf, i, n, oob) ==
    IF n = 0 THEN "" ELSE Chr(At(buf, i, oob)) \o StringAt(buf, i + 1, n - 1, oob)

\* ------------------------------------------------------------- the peers

\* First messages a client may send.
Greetings ==
    { <<5, 1, 0>>,        \* one method, NO AUTH
      <<5, 1, 2>>,        \* one method, USERNAME/PASSWORD
      <<5, 2, 2, 0>>,     \* two methods, the second NO AUTH
      <<5, 2, 1>>,        \* announces two methods, sends one
      <<4, 1, 0>> }       \* SOCKS4 version byte

\* Second messages a client may send (port 443 = 01 BB).
Requests ==
    { <<5, 1, 0, 1, 127, 0, 0, 1, 1, 187>>,
      <<5, 1, 0, 3, 1, 97, 1, 187>>,
      <<5, 1, 0, 4, 0, 0, 0, 0, 0, 0, 0, 0, 0, 0, 0, 0, 0, 0, 0, 1, 1, 187>>,
      <<5, 2, 0, 1, 127, 0, 0, 1, 1, 187>>,
      <<5, 1, 0, 9, 0, 0>>,
      <<4, 1, 0, 1, 127, 0, 0, 1, 1, 187>> }

\* The k-th payload byte the client / the upstream peer sends in the relay.
ClientByte(k) == 64 + k

UpstreamByte(k) == 128 + k

\* Values an out-of-range read of a buffer may return.
OobBytes == {0, 170}

Loopback4 == <<127, 0, 0, 1>>

Loopback6 == <<0, 0, 0, 0, 0, 0, 0, 0, 0, 0, 0, 0, 0, 0, 0, 1>>

Endpoint(fam, addr, port) == [fam |-> fam, addr |-> addr, port |-> port]

NoEndpoint == Endpoint("none", <<>>, 0)

\* Port numbers the modelled service strings stand for.
KnownPorts == {0, 443, 65535}

\* The resolver's possible answers to (host, service): endpoint lists.  An
\* address literal resolves to itself; the name "a" has an IPv6 and an IPv4
\* address; an empty host with an empty service names nothing.
ResolverAnswers(host, service) ==
    IF \A p \in KnownPorts : ToString(p) # service THEN {}
    ELSE LET port == CHOOSE p \in KnownPorts : ToString(p) = service
         IN CASE host = "127.0.0.1" -> {<<Endpoint("v4", Loopback4, port)>>}
              [] host = "::1" -> {<<Endpoint("v6", Loopback6, port)>>}
              [] host = "a" -> { <<Endpoint("v4", <<10, 0, 0, 2>>, port)>>,
                                 <<Endpoint("v6", Loopback6, port),
                                   Endpoint("v4", <<10, 0, 0, 2>>, port)>> }
              [] OTHER -> {}

\* ------------------------------------------------------------------ state

VARIABLES
    process,        \* main: its argument count, whether it caught an exception, its exit code
    running,        \* io_context.run() has not been left
    buffer_size,    \* Server::buffer_size_
    session_id,     \* Server::session_id_
    accept_ops,     \* outstanding async_accept operations of the Server
    accept_errors,  \* failed accepts so far
    clients,        \* clients that have yet to connect
    sessions,       \* session id -> the Session object
    net,            \* session id -> its two connections and their peers
    hist            \* session id -> what the Session has done so far

vars == <<process, running, buffer_size, session_id, accept_ops, accept_errors,
          clients, sessions, net, hist>>

\* An asynchronous operation of a Session: the function that issued it, its
\* state (pending; ok or err once completed, with the handler still to run),
\* the byte count (requested for a write, received for a receive), the bytes a
\* write has transmitted so far, the error code, and connect's endpoints.
Op(h, len, eps) ==
    [h |-> h, st |-> "pending", len |-> len, sent |-> 0, ec |-> "none", eps |-> eps]

RecvHandlers == {"read_socks5_handshake", "read_socks5_request", "do_read_1", "do_read_2"}

WriteHandlers == {"write_socks5_handshake", "write_socks5_response", "do_write_1", "do_write_2"}

\* The socket an operation runs on.
SocketOf(h) ==
    CASE h \in {"do_read_2", "do_write_1", "do_connect"} -> "out"
      [] h = "do_resolve" -> "resolver"
      [] OTHER -> "in"

\* The buffer an operation reads into or writes from.
BufferOf(h) == IF h \in {"do_read_2", "do_write_2"} THEN "out_buf" ELSE "in_buf"

\* Session::Session: the accepted socket, an unopened out_socket, two zeroed
\* buffers of buffer_size bytes, empty host and port.
NewSession(id, size) ==
    [ session_id_ |-> id,
      alive |-> TRUE,
      in_open |-> TRUE,
      out_open |-> FALSE,
      remote_ep |-> NoEndpoint,
      remote_host_ |-> "",
      remote_port_ |-> "",
      in_buf_ |-> NewBuffer(size),
      out_buf_ |-> NewBuffer(size),
      ops |-> {} ]

\* The connections of a new Session: the client has connected and sent
\* nothing; there is no upstream connection.
NewNet ==
    [ cli |-> "open", stage |-> 0, c2s |-> <<>>, to_client |-> <<>>, cli_sent |-> 0,
      up |-> "none", u2s |-> <<>>, to_up |-> <<>>, up_sent |-> 0 ]

Handlers ==
    RecvHandlers \cup WriteHandlers \cup {"do_resolve", "do_connect"}

\* What a Session has done so far (observations, read by the properties):
\* the greeting and the request as their handlers found them in in_buf, the
\* whole of in_buf as the greeting's handler found it, the
\* method selection and the reply as handed to async_write, the resolver's
\* calls, how often each operation was issued and how often its handler has
\* run, the log lines written,
\* what was issued after a relay handler had closed the sockets, and the
\* bytes the receives of do_read have taken from in_socket_ (received[1]) and
\* from out_socket_ (received[2]).
NewHist ==
    [ greeting |-> <<>>, scanned |-> <<>>, msel |-> <<>>, request |-> <<>>,
      resolves |-> <<>>,
      connected |-> FALSE, reply |-> <<>>, reply_ep |-> NoEndpoint,
      relay |-> FALSE, relay_err |-> FALSE, late_ops |-> {},
      issued |-> [h \in Handlers |-> 0], done |-> [h \in Handlers |-> 0],
      log |-> {}, oob |-> FALSE, received |-> <<<<>>, <<>>>> ]

\* The argument counts main is started with.
ArgumentCounts == {1, 2, 3}

\* main has not returned (its return values are 0 and 1).
NotExited == -1

\* main's return value: 1 after the usage message; otherwise the try block
\* is left, normally or through one of the catch clauses, and the function
\* ends with return 0.
MainReturns(argc, caught) == IF argc # ARGC_EXPECTED THEN EXIT_USAGE ELSE EXIT_DEFAULT

\* main up to io_context.run(): a wrong argument count returns at once, an
\* exception of the Server's constructor (the listener cannot be bound) is
\* caught, otherwise the Server accepts and run() is entered.
Serving == [argc |-> ARGC_EXPECTED, caught |-> FALSE, exit_code |-> NotExited]

Init ==
    /\ \E argc \in ArgumentCounts, threw \in BOOLEAN :
          LET served == argc = ARGC_EXPECTED /\ ~threw
              caught == argc = ARGC_EXPECTED /\ threw
          IN /\ (argc # ARGC_EXPECTED) => ~threw
             /\ running = served
             /\ accept_ops = IF served THEN 1 ELSE 0
             /\ process = IF served THEN Serving
                          ELSE [argc |-> argc, caught |-> caught,
                                exit_code |-> MainReturns(argc, caught)]
    /\ buffer_size \in BufferSizes
    /\ session_id = 0
    /\ accept_errors = 0
    /\ clients = 1
    /\ sessions = << >>
    /\ net = << >>
    /\ hist = << >>

Ids == DOMAIN sessions

Live(s) == running /\ s \in Ids /\ sessions[s].alive

\* ------------------------------------------------- operations and sockets

\* socket.close(): the socket is closed and every operation still pending
\* on it completes with operation_aborted.
Abort(ops, sock) ==
    { IF o.st = "pending" /\ SocketOf(o.h) = sock
      THEN [o EXCEPT !.st = "err", !.ec = "aborted"] ELSE o : o \in ops }

CloseIn(t) == [t EXCEPT !.in_open = FALSE, !.ops = Abort(t.ops, "in")]

CloseOut(t) == [t EXCEPT !.out_open = FALSE, !.ops = Abort(t.ops, "out")]

\* in_socket_.close(); out_socket_.close();
CloseBoth(t) == CloseOut(CloseIn(t))

SocketOpen(t, sock) ==
    CASE sock = "in" -> t.in_open [] sock = "out" -> t.out_open [] OTHER -> TRUE

\* An operation as the Session issues it: on a socket that is not open it
\* completes at once with bad_descriptor.
Issue(t, h, len, eps) ==
    IF h \in RecvHandlers \cup WriteHandlers /\ ~SocketOpen(t, SocketOf(h))
    THEN [Op(h, len, eps) EXCEPT !.st = "err", !.ec = "bad_descriptor"]
    ELSE Op(h, len, eps)

\* ~Session: both sockets are closed, the buffers are freed.
Destroy(t) ==
    [t EXCEPT !.alive = FALSE, !.in_open = FALSE, !.out_open = FALSE, !.ops = {}]

\* The completion handler of `op` returns, having left the Session as `t` and
\* issued the operations `issued`; each operation holds one shared_ptr to the
\* Session, which is destroyed when the last one is gone.
Return(t, op, issued) ==
    LET left == (t.ops \ {op}) \cup issued
    IN IF left = {} THEN Destroy(t) ELSE [t EXCEPT !.ops = left]

\* An exception leaves the handler, io_context.run() and main's try block:
\* the Server and every Session are destroyed.
Unwind ==
    /\ running' = FALSE
    /\ process' = [process EXCEPT !.caught = TRUE,
                                  !.exit_code = MainReturns(process.argc, TRUE)]
    /\ accept_ops' = 0
    /\ sessions' = [s \in Ids |-> Destroy(sessions[s])]

\* The observations after a handler issued the operations `issued` and
\* wrote the log lines `lines`.
Noted(h, issued, lines) ==
    [h EXCEPT !.issued = [k \in Handlers |->
                             @[k] + Cardinality({o \in issued : o.h = k})],
              !.late_ops = IF h.relay_err THEN @ \cup {o.h : o \in issued} ELSE @,
              !.log = @ \cup lines]

\* ------------------------------------------------------------ the Server

\* Mutant of AcceptOk: the counter is not incremented.
AcceptOkSameId ==
    /\ running /\ accept_ops > 0 /\ clients > 0
    /\ LET id == session_id
           t == NewSession(id, buffer_size)
       IN /\ sessions' = sessions @@ (id :> [t EXCEPT !.ops = {Issue(t, "read_socks5_handshake", 0, <<>>)}])
          /\ net' = net @@ (id :> NewNet)
          /\ hist' = hist @@ (id :> Noted(NewHist, {Issue(t, "read_socks5_handshake", 0, <<>>)}, {}))
    /\ session_id' = session_id
    /\ clients' = clients - 1
    /\ accept_ops' = (accept_ops - 1) + 1
    /\ UNCHANGED <<process, running, buffer_size, accept_errors>>

\* do_accept's handler on success: a Session is made with the id
\* session_id_++ and started, and accept is issued again.  (The counter is
\* an unsigned; its wrap after 2^32 accepts is far outside what is explored.)
AcceptOk ==
    /\ running /\ accept_ops > 0 /\ clients > 0
    /\ LET id == session_id
           t == NewSession(id, buffer_size)
       IN /\ sessions' = sessions @@ (id :> [t EXCEPT !.ops = {Issue(t, "read_socks5_handshake", 0, <<>>)}])
          /\ net' = net @@ (id :> NewNet)
          /\ hist' = hist @@ (id :> Noted(NewHist, {Issue(t, "read_socks5_handshake", 0, <<>>)}, {}))
    /\ session_id' = session_id + 1
    /\ clients' = clients - 1
    /\ accept_ops' = (accept_ops - 1) + 1
    /\ UNCHANGED <<process, running, buffer_size, accept_errors>>

\* Mutant of AcceptError: accept is not issued again after a failed accept.
AcceptErrorStops ==
    /\ running /\ accept_ops > 0 /\ clients > 0
    /\ clients' = clients - 1
    /\ accept_errors' = accept_errors + 1
    /\ accept_ops' = accept_ops - 1
    /\ UNCHANGED <<process, running, buffer_size, session_id, sessions, net, hist>>

\* do_accept's handler on an error (the connecting client has gone away
\* before it was accepted): it is logged and accept is issued again.
AcceptError ==
    /\ running /\ accept_ops > 0 /\ clients > 0
    /\ clients' = clients - 1
    /\ accept_errors' = accept_errors + 1
    /\ accept_ops' = (accept_ops - 1) + 1
    /\ UNCHANGED <<process, running, buffer_size, session_id, sessions, net, hist>>

\* -------------------------------------------------------------- the peers

\* The client sends its next message: a greeting, then a request, then
\* payload bytes one at a time.
ClientSend(s) ==
    /\ Live(s) /\ sessions[s].in_open /\ net[s].cli = "open"
    /\ \/ /\ net[s].stage = 0
          /\ \E g \in Greetings :
                net' = [net EXCEPT ![s].c2s = @ \o g, ![s].stage = 1]
       \/ /\ net[s].stage = 1
          /\ \E r \in Requests :
                net' = [net EXCEPT ![s].c2s = @ \o r, ![s].stage = 2]
       \/ /\ net[s].stage = 2 /\ net[s].cli_sent < MaxPayload
          /\ net' = [net EXCEPT ![s].c2s = Append(@, ClientByte(net[s].cli_sent + 1)),
                                ![s].cli_sent = @ + 1]
    /\ UNCHANGED <<process, running, buffer_size, session_id, accept_ops, accept_errors,
                   clients, sessions, hist>>

\* The client shuts down its sending side (FIN): it still receives.
ClientShutdown(s) ==
    /\ Live(s) /\ sessions[s].in_open /\ net[s].cli = "open"
    /\ net' = [net EXCEPT ![s].cli = "shut"]
    /\ UNCHANGED <<process, running, buffer_size, session_id, accept_ops, accept_errors,
                   clients, sessions, hist>>

\* The client closes its connection.
ClientClose(s) ==
    /\ Live(s) /\ sessions[s].in_open /\ net[s].cli \in {"open", "shut"}
    /\ net' = [net EXCEPT ![s].cli = "closed"]
    /\ UNCHANGED <<process, running, buffer_size, session_id, accept_ops, accept_errors,
                   clients, sessions, hist>>

\* The upstream peer sends its next payload byte.
UpstreamSend(s) ==
    /\ Live(s) /\ sessions[s].out_open /\ net[s].up = "open"
    /\ net[s].up_sent < MaxPayload
    /\ net' = [net EXCEPT ![s].u2s = Append(@, UpstreamByte(net[s].up_sent + 1)),
                          ![s].up_sent = @ + 1]
    /\ UNCHANGED <<process, running, buffer_size, session_id, accept_ops, accept_errors,
                   clients, sessions, hist>>

\* The upstream peer shuts down its sending side: it still receives.
UpstreamShutdown(s) ==
    /\ Live(s) /\ sessions[s].out_open /\ net[s].up = "open"
    /\ net' = [net EXCEPT ![s].up = "shut"]
    /\ UNCHANGED <<process, running, buffer_size, session_id, accept_ops, accept_errors,
                   clients, sessions, hist>>

\* The upstream peer closes its connection.
UpstreamClose(s) ==
    /\ Live(s) /\ sessions[s].out_open /\ net[s].up \in {"open", "shut"}
    /\ net' = [net EXCEPT ![s].up = "closed"]
    /\ UNCHANGED <<process, running, buffer_size, session_id, accept_ops, accept_errors,
                   clients, sessions, hist>>

\* ------------------------------------------- completion of the operations

PendingOps(s, hs) == {o \in sessions[s].ops : o.h \in hs /\ o.st = "pending"}

DoneOps(s, h) == {o \in sessions[s].ops : o.h = h /\ o.st # "pending"}

Replace(ops, old, new) == (ops \ {old}) \cup {new}

\* async_receive completes with data: between one byte and a buffer full of
\* what the peer has sent is stored at the start of the buffer.
RecvData(s) ==
    /\ Live(s)
    /\ \E op \in PendingOps(s, RecvHandlers) :
         LET t == sessions[s]
             fromIn == SocketOf(op.h) = "in"
             pipe == IF fromIn THEN net[s].c2s ELSE net[s].u2s
             buf == IF BufferOf(op.h) = "in_buf" THEN t.in_buf_ ELSE t.out_buf_
         IN \E n \in 1..Min(Len(pipe), Len(buf)) :
              LET done == [op EXCEPT !.st = "ok", !.len = n]
                  filled == Fill(buf, Take(pipe, n))
              IN /\ sessions' = [sessions EXCEPT
                        ![s].ops = Replace(@, op, done),
                        ![s].in_buf_ = IF BufferOf(op.h) = "in_buf" THEN filled ELSE @,
                        ![s].out_buf_ = IF BufferOf(op.h) = "out_buf" THEN filled ELSE @]
                 /\ net' = [net EXCEPT
                        ![s].c2s = IF fromIn THEN Drop(@, n) ELSE @,
                        ![s].u2s = IF fromIn THEN @ ELSE Drop(@, n)]
                 /\ hist' = [hist EXCEPT
                        ![s].received[1] =
                            IF op.h = "do_read_1" THEN @ \o Take(pipe, n) ELSE @,
                        ![s].received[2] =
                            IF op.h = "do_read_2" THEN @ \o Take(pipe, n) ELSE @]
    /\ UNCHANGED <<process, running, buffer_size, session_id, accept_ops, accept_errors,
                   clients>>

\* async_receive completes with end of file: the peer has shut down or closed
\* and everything it sent has been received.
RecvEof(s) ==
    /\ Live(s)
    /\ \E op \in PendingOps(s, RecvHandlers) :
         LET fromIn == SocketOf(op.h) = "in"
             pipe == IF fromIn THEN net[s].c2s ELSE net[s].u2s
             peer == IF fromIn THEN net[s].cli ELSE net[s].up
         IN /\ pipe = <<>> /\ peer \in {"shut", "closed"}
            /\ sessions' = [sessions EXCEPT ![s].ops =
                    Replace(@, op, [op EXCEPT !.st = "err", !.ec = "eof"])]
    /\ UNCHANGED <<process, running, buffer_size, session_id, accept_ops, accept_errors,
                   clients, net, hist>>

\* async_write transmits some more of asio::buffer(buf, len) to a peer that
\* is still there, and completes once all of it is transmitted.
WriteSome(s) ==
    /\ Live(s)
    /\ \E op \in PendingOps(s, WriteHandlers) :
         LET t == sessions[s]
             toIn == SocketOf(op.h) = "in"
             peer == IF toIn THEN net[s].cli ELSE net[s].up
             buf == IF BufferOf(op.h) = "in_buf" THEN t.in_buf_ ELSE t.out_buf_
             data == BufferView(buf, op.len)
         IN /\ peer \in {"open", "shut"}
            /\ \E k \in 1..(Len(data) - op.sent) :
                 LET part == SubSeq(data, op.sent + 1, op.sent + k)
                     now == [op EXCEPT !.sent = @ + k,
                                       !.st = IF op.sent + k = Len(data) THEN "ok" ELSE @]
                 IN /\ sessions' = [sessions EXCEPT ![s].ops = Replace(@, op, now)]
                    /\ net' = [net EXCEPT
                           ![s].to_client = IF toIn THEN @ \o part ELSE @,
                           ![s].to_up = IF toIn THEN @ ELSE @ \o part]
    /\ UNCHANGED <<process, running, buffer_size, session_id, accept_ops, accept_errors,
                   clients, hist>>

\* async_write completes with an error: the peer has closed its connection.
WriteError(s) ==
    /\ Live(s)
    /\ \E op \in PendingOps(s, WriteHandlers) :
         LET peer == IF SocketOf(op.h) = "in" THEN net[s].cli ELSE net[s].up
         IN /\ peer = "closed"
            /\ sessions' = [sessions EXCEPT ![s].ops =
                    Replace(@, op, [op EXCEPT !.st = "err", !.ec = "error"])]
    /\ UNCHANGED <<process, running, buffer_size, session_id, accept_ops, accept_errors,
                   clients, net, hist>>

\* async_resolve completes: with one of the resolver's answers, or an error.
ResolveDone(s) ==
    /\ Live(s)
    /\ \E op \in PendingOps(s, {"do_resolve"}) :
         LET t == sessions[s]
         IN \/ \E eps \in ResolverAnswers(t.remote_host_, t.remote_port_) :
                 sessions' = [sessions EXCEPT ![s].ops =
                     Replace(@, op, [op EXCEPT !.st = "ok", !.eps = eps])]
            \/ sessions' = [sessions EXCEPT ![s].ops =
                     Replace(@, op, [op EXCEPT !.st = "err", !.ec = "error"])]
    /\ UNCHANGED <<process, running, buffer_size, session_id, accept_ops, accept_errors,
                   clients, net, hist>>

\* async_connect completes: the endpoints are tried in order; out_socket is
\* connected to the first that answers, or every attempt has failed.
ConnectDone(s) ==
    /\ Live(s)
    /\ \E op \in PendingOps(s, {"do_connect"}) :
         \/ \E i \in 1..Len(op.eps) :
              /\ sessions' = [sessions EXCEPT
                     ![s].ops = Replace(@, op, [op EXCEPT !.st = "ok", !.len = i]),
                     ![s].out_open = TRUE,
                     ![s].remote_ep = op.eps[i]]
              /\ net' = [net EXCEPT ![s].up = "open"]
         \/ /\ sessions' = [sessions EXCEPT
                     ![s].ops = Replace(@, op, [op EXCEPT !.st = "err", !.ec = "error"]),
                     ![s].out_open = TRUE]
            /\ net' = net
    /\ UNCHANGED <<process, running, buffer_size, session_id, accept_ops, accept_errors,
                   clients, hist>>

\* ------------------------------------------------ the Session's handlers

\* A handler of session s ends: the Session is left as `t`, operation `op` is
\* done, `issued` was issued, `h` is the updated record of observations.
Ends(s, t, op, issued, lines, h) ==
    /\ sessions' = [sessions EXCEPT ![s] = Return(t, op, issued)]
    /\ hist' = [hist EXCEPT ![s] =
                   Noted([h EXCEPT !.done[op.h] = @ + 1], issued, lines)]
    /\ UNCHANGED <<process, running, buffer_size, session_id, accept_ops, accept_errors,
                   clients, net>>

\* Mutant of GreetingInvalid: the version byte is not looked at.
GreetingInvalidLengthOnly(buf, length) == length < MIN_GREETING

\* if( length < 3 || in_buf_[0] != 0x05 )
GreetingInvalid(buf, length) ==
    length < MIN_GREETING \/ At(buf, 0, 0) # SOCKS_VERSION

\* The scan for NO AUTHENTICATION REQUIRED: in_buf_[1] becomes 0x00 at the
\* first method byte that is 0x00.
RECURSIVE ScanMethods(_, _, _, _)
ScanMethods(buf, method, num_methods, oob) ==
    IF method >= num_methods THEN buf
    ELSE IF At(buf, 2 + method, oob) = METHOD_NO_AUTH
         THEN Store(buf, 1, METHOD_NO_AUTH)
    ELSE ScanMethods(buf, method + 1, num_methods, oob)

\* num_methods = in_buf_[1]; in_buf_[1] = 0xFF; then the scan.
SelectMethod(buf, oob) ==
    ScanMethods(Store(buf, 1, METHOD_NONE), 0, At(buf, 1, oob), oob)

\* Whether the scan reads an index outside the vector.
ScanLeavesBuffer(buf) ==
    /\ 2 + At(buf, 1, 0) > Len(buf)
    /\ \A i \in 2..(Len(buf) - 1) : buf[i + 1] # METHOD_NO_AUTH

\* The handler of read_socks5_handshake's receive.
HandshakeRead(s) ==
    /\ Live(s)
    /\ \E op \in DoneOps(s, "read_socks5_handshake") :
         LET t == sessions[s]
             h == hist[s]
         IN IF op.st = "err"
            THEN Ends(s, t, op, {}, {"handshake request error"}, h)
            ELSE IF GreetingInvalid(t.in_buf_, op.len)
            THEN Ends(s, t, op, {}, {"handshake request is invalid"},
                      [h EXCEPT !.greeting = Take(t.in_buf_, op.len),
                                !.scanned = t.in_buf_])
            ELSE \E oob \in OobBytes :
                   LET t1 == [t EXCEPT !.in_buf_ = SelectMethod(t.in_buf_, oob)]
                       wr == Issue(t1, "write_socks5_handshake", GREETING_REPLY_LEN, <<>>)
                   IN Ends(s, t1, op, {wr}, {},
                           [h EXCEPT !.greeting = Take(t.in_buf_, op.len),
                                     !.scanned = t.in_buf_,
                                     !.msel = BufferView(t1.in_buf_, GREETING_REPLY_LEN),
                                     !.oob = @ \/ ScanLeavesBuffer(t.in_buf_)])

\* The handler of write_socks5_handshake's write.
HandshakeWritten(s) ==
    /\ Live(s)
    /\ \E op \in DoneOps(s, "write_socks5_handshake") :
         LET t == sessions[s]
             h == hist[s]
         IN IF op.st = "err"
            THEN Ends(s, t, op, {}, {"handshake response write error"}, h)
            ELSE IF At(t.in_buf_, 1, 0) = METHOD_NONE
            THEN Ends(s, t, op, {}, {}, h)
            ELSE Ends(s, t, op, {Issue(t, "read_socks5_request", 0, <<>>)}, {}, h)

\* if( length < 5 || in_buf_[0] != 0x05 || in_buf_[1] != 0x01 )
RequestInvalid(buf, length) ==
    \/ length < MIN_REQUEST
    \/ At(buf, 0, 0) # SOCKS_VERSION
    \/ At(buf, 1, 0) # CMD_CONNECT

\* The length checks of the three address types.
RequestLengthInvalid(buf, length) ==
    LET addr_type == At(buf, 3, 0)
        host_length == At(buf, 4, 0)
    IN CASE addr_type = ATYP_IPV4 -> length # IPV4_REQUEST_LEN
         [] addr_type = ATYP_DOMAIN -> length # 5 + host_length + 2
         [] addr_type = ATYP_IPV6 -> length # IPV6_REQUEST_LEN
         [] OTHER -> FALSE

\* remote_host_ after the switch; the default case leaves it as it was.
DecodeHost(buf, old) ==
    LET addr_type == At(buf, 3, 0)
    IN CASE addr_type = ATYP_IPV4 -> AddressV4ToString(Ntohl(LoadU32(buf, 4, 0)))
         [] addr_type = ATYP_DOMAIN -> StringAt(buf, 5, At(buf, 4, 0), 0)
         [] addr_type = ATYP_IPV6 -> AddressV6ToString(SubSeq(buf, 5, 20))
         [] OTHER -> old

\* Mutant of DecodePort: the port is read without ntohs.
DecodePortHostOrder(buf, old) ==
    LET addr_type == At(buf, 3, 0)
    IN CASE addr_type = ATYP_IPV4 -> ToString(LoadU16(buf, 8, 0))
         [] addr_type = ATYP_DOMAIN -> ToString(LoadU16(buf, 5 + At(buf, 4, 0), 0))
         [] addr_type = ATYP_IPV6 -> ToString(LoadU16(buf, 20, 0))
         [] OTHER -> old

\* remote_port_ after the switch; the default case leaves it as it was.
DecodePort(buf, old) ==
    LET addr_type == At(buf, 3, 0)
    IN CASE addr_type = ATYP_IPV4 -> ToString(Ntohs(LoadU16(buf, 8, 0)))
         [] addr_type = ATYP_DOMAIN -> ToString(Ntohs(LoadU16(buf, 5 + At(buf, 4, 0), 0)))
         [] addr_type = ATYP_IPV6 -> ToString(Ntohs(LoadU16(buf, 20, 0)))
         [] OTHER -> old

\* The handler of read_socks5_request's receive.  The switch's default case
\* logs and breaks, so it too reaches do_resolve().
RequestRead(s) ==
    /\ Live(s)
    /\ \E op \in DoneOps(s, "read_socks5_request") :
         LET t == sessions[s]
             h == hist[s]
             buf == t.in_buf_
             seen == [h EXCEPT !.request = Take(buf, op.len)]
             known == At(buf, 3, 0) \in {ATYP_IPV4, ATYP_DOMAIN, ATYP_IPV6}
             t1 == [t EXCEPT !.remote_host_ = DecodeHost(buf, @),
                             !.remote_port_ = DecodePort(buf, @)]
             lines == IF known THEN {} ELSE {"unsupported address type"}
         IN IF op.st = "err"
            THEN Ends(s, t, op, {}, {"request read error"}, h)
            ELSE IF RequestInvalid(buf, op.len)
            THEN Ends(s, t, op, {}, {"request is invalid"}, seen)
            ELSE IF RequestLengthInvalid(buf, op.len)
            THEN Ends(s, t, op, {}, {"request length is invalid"}, seen)
            ELSE Ends(s, t1, op, {Issue(t1, "do_resolve", 0, <<>>)}, lines,
                      [seen EXCEPT !.resolves =
                           Append(@, <<t1.remote_host_, t1.remote_port_>>)])

\* The handler of do_resolve's async_resolve.
Resolved(s) ==
    /\ Live(s)
    /\ \E op \in DoneOps(s, "do_resolve") :
         LET t == sessions[s]
             h == hist[s]
         IN IF op.st = "err"
            THEN Ends(s, t, op, {}, {"failed to resolve"}, h)
            ELSE Ends(s, t, op, {Issue(t, "do_connect", 0, op.eps)}, {}, h)

\* to_uint() of an IPv4 address: its four bytes as a host-order integer.
ToUint(addr) ==
    (addr[1] * 16777216) + (addr[2] * 65536) + (addr[3] * 256) + addr[4]

\* The length of the reply write_socks5_response builds for out_socket's
\* remote endpoint.
ReplyLength(ep) == IF ep.fam = "v4" THEN IPV4_REPLY_LEN ELSE IPV6_REPLY_LEN

\* in_buf_ after write_socks5_response has built the reply in it.
BuildReply(buf, ep) ==
    LET head == Store(Store(Store(buf, 0, SOCKS_VERSION), 1, REP_SUCCEEDED), 2, 0)
        port == BytesU16(Ntohs(ep.port))
    IN IF ep.fam = "v4"
       THEN Memcpy(Memcpy(Store(head, 3, ATYP_IPV4), 4, BytesU32(Ntohl(ToUint(ep.addr)))),
                   8, port)
       ELSE Memcpy(Memcpy(Store(head, 3, ATYP_IPV6), 4, ep.addr), 20, port)

\* Mutant of ConnectFailed: a reply is written although the connect failed.
ConnectFailedReplies(t) == {Issue(t, "write_socks5_response", IPV4_REPLY_LEN, <<>>)}

\* What the handler of do_connect issues on an error: nothing; it logs and
\* returns.
ConnectFailed(t) == {}

\* The handler of do_connect's async_connect; on success it runs
\* write_socks5_response, which builds the reply and writes it.
\* out_socket_.remote_endpoint() throws when the peer has meanwhile reset
\* the connection.
Connected(s) ==
    /\ Live(s)
    /\ \E op \in DoneOps(s, "do_connect") :
         LET t == sessions[s]
             h == hist[s]
             ep == t.remote_ep
             t1 == [t EXCEPT !.in_buf_ = BuildReply(t.in_buf_, ep)]
             wr == Issue(t1, "write_socks5_response", ReplyLength(ep), <<>>)
         IN IF op.st = "err"
            THEN Ends(s, t, op, ConnectFailed(t), {"failed to connect"}, h)
            ELSE \/ Ends(s, t1, op, {wr}, {"connected"},
                         [h EXCEPT !.connected = TRUE,
                                   !.reply = BufferView(t1.in_buf_, ReplyLength(ep)),
                                   !.reply_ep = ep,
                                   !.oob = @ \/ ReplyLength(ep) > Len(t.in_buf_)])
                 \/ /\ net[s].up = "closed"
                    /\ Unwind
                    /\ hist' = [hist EXCEPT ![s].connected = TRUE,
                                            ![s].done["do_connect"] = @ + 1,
                                            ![s].log = @ \cup {"connected"}]
                    /\ UNCHANGED <<buffer_size, session_id, accept_errors, clients, net>>

\* Mutant of DoRead: every call starts the receives of both directions.
DoReadBoth(t, direction) ==
    {Issue(t, "do_read_1", 0, <<>>), Issue(t, "do_read_2", 0, <<>>)}

\* do_read( direction ): a receive on in_socket_ for bit 1, on out_socket_
\* for bit 2.
DoRead(t, direction) ==
    (IF direction \in {1, 3} THEN {Issue(t, "do_read_1", 0, <<>>)} ELSE {})
    \cup (IF direction \in {2, 3} THEN {Issue(t, "do_read_2", 0, <<>>)} ELSE {})

\* Mutant of DoWrite: the next receive of the direction is started together
\* with the write.
DoWriteAndRead(t, direction, length) ==
    (IF direction = 1 THEN {Issue(t, "do_write_1", length, <<>>)}
     ELSE {Issue(t, "do_write_2", length, <<>>)})
    \cup DoRead(t, direction)

\* Mutant of DoWrite: the two directions write to each other's socket.
DoWriteCrossed(t, direction, length) ==
    IF direction = 1 THEN {Issue(t, "do_write_2", length, <<>>)}
    ELSE {Issue(t, "do_write_1", length, <<>>)}

\* Mutant of DoWrite: the whole buffer is written, whatever was received.
DoWriteStale(t, direction, length) ==
    IF direction = 1 THEN {Issue(t, "do_write_1", Len(t.in_buf_), <<>>)}
    ELSE {Issue(t, "do_write_2", Len(t.out_buf_), <<>>)}

\* do_write( direction, Length ): in_buf_ to out_socket_ for direction 1,
\* out_buf_ to in_socket_ for direction 2.
DoWrite(t, direction, length) ==
    IF direction = 1 THEN {Issue(t, "do_write_1", length, <<>>)}
    ELSE {Issue(t, "do_write_2", length, <<>>)}

\* The handler of write_socks5_response's write: do_read( 3 ).
ResponseWritten(s) ==
    /\ Live(s)
    /\ \E op \in DoneOps(s, "write_socks5_response") :
         LET t == sessions[s]
             h == hist[s]
         IN IF op.st = "err"
            THEN Ends(s, t, op, {}, {"response write error"}, h)
            ELSE Ends(s, t, op, DoRead(t, 3), {}, [h EXCEPT !.relay = TRUE])

\* Mutant of RelayError: only the client's socket is closed.
RelayErrorClosesOne(t) == CloseIn(t)

\* The error branch of the four relay handlers:
\* in_socket_.close(); out_socket_.close();
RelayError(t) == CloseBoth(t)

\* The handler of a receive of do_read, direction 1 or 2.
RelayRead(s, direction) ==
    /\ Live(s)
    /\ \E op \in DoneOps(s, IF direction = 1 THEN "do_read_1" ELSE "do_read_2") :
         LET t == sessions[s]
             h == hist[s]
         IN IF op.st = "ok"
            THEN Ends(s, t, op, DoWrite(t, direction, op.len), {}, h)
            ELSE Ends(s, RelayError(t), op, {}, {"closing session"},
                      [h EXCEPT !.relay_err = TRUE])

\* The handler of a write of do_write, direction 1 or 2.
RelayWritten(s, direction) ==
    /\ Live(s)
    /\ \E op \in DoneOps(s, IF direction = 1 THEN "do_write_1" ELSE "do_write_2") :
         LET t == sessions[s]
             h == hist[s]
         IN IF op.st = "ok"
            THEN Ends(s, t, op, DoRead(t, direction), {}, h)
            ELSE Ends(s, RelayError(t), op, {}, {"closing session"},
                      [h EXCEPT !.relay_err = TRUE])

\* ------------------------------------------------------- the specification

Next ==
    \/ AcceptOk
    \/ AcceptError
    \/ \E s \in Ids : ClientSend(s)
    \/ \E s \in Ids : ClientShutdown(s)
    \/ \E s \in Ids : ClientClose(s)
    \/ \E s \in Ids : UpstreamSend(s)
    \/ \E s \in Ids : UpstreamShutdown(s)
    \/ \E s \in Ids : UpstreamClose(s)
    \/ \E s \in Ids : RecvData(s)
    \/ \E s \in Ids : RecvEof(s)
    \/ \E s \in Ids : WriteSome(s)
    \/ \E s \in Ids : WriteError(s)
    \/ \E s \in Ids : ResolveDone(s)
    \/ \E s \in Ids : ConnectDone(s)
    \/ \E s \in Ids : HandshakeRead(s)
    \/ \E s \in Ids : HandshakeWritten(s)
    \/ \E s \in Ids : RequestRead(s)
    \/ \E s \in Ids : Resolved(s)
    \/ \E s \in Ids : Connected(s)
    \/ \E s \in Ids : ResponseWritten(s)
    \/ \E s \in Ids : RelayRead(s, 1)
    \/ \E s \in Ids : RelayRead(s, 2)
    \/ \E s \in Ids : RelayWritten(s, 1)
    \/ \E s \in Ids : RelayWritten(s, 2)

Spec == Init /\ [][Next]_vars

\* A step of io_context.run(): it runs the handler of a completed operation.
HandlerStep ==
    \E s \in Ids :
        \/ HandshakeRead(s) \/ HandshakeWritten(s) \/ RequestRead(s)
        \/ Resolved(s) \/ Connected(s) \/ ResponseWritten(s)
        \/ RelayRead(s, 1) \/ RelayRead(s, 2)
        \/ RelayWritten(s, 1) \/ RelayWritten(s, 2)

\* io_context.run() keeps running handlers while a completed operation is
\* waiting for its handler.  Nothing is assumed of the peers.
HandlersRun == WF_vars(HandlerStep)

\* The state in which a Session enters the relay: a client has sent the
\* greeting 05 01 00 and a CONNECT request for the name "a", out_socket is
\* connected to 10.0.0.2:443, the reply has been written, its handler has
\* called do_read( 3 ), and no payload has been sent yet.
RelayGreeting == <<5, 1, 0>>

RelayRequest == <<5, 1, 0, 3, 1, 97, 1, 187>>

RelayEndpoint == Endpoint("v4", <<10, 0, 0, 2>>, 443)

RelaySession ==
    LET t0 == NewSession(0, 24)
        parsed == Fill(SelectMethod(Fill(t0.in_buf_, RelayGreeting), 0), RelayRequest)
        t1 == [t0 EXCEPT !.out_open = TRUE,
                         !.remote_ep = RelayEndpoint,
                         !.remote_host_ = DecodeHost(parsed, ""),
                         !.remote_port_ = DecodePort(parsed, ""),
                         !.in_buf_ = BuildReply(parsed, RelayEndpoint)]
    IN [t1 EXCEPT !.ops = DoRead(t1, 3)]

RelayNet ==
    [NewNet EXCEPT !.stage = 2, !.up = "open",
                   !.to_client = <<5, 0>> \o BufferView(RelaySession.in_buf_, 10)]

RelayHist ==
    [NewHist EXCEPT
        !.greeting = RelayGreeting, !.scanned = Fill(NewBuffer(24), RelayGreeting),
        !.msel = <<5, 0>>, !.request = RelayRequest,
        !.resolves = <<<<"a", "443">>>>, !.connected = TRUE,
        !.reply = BufferView(RelaySession.in_buf_, 10), !.reply_ep = RelayEndpoint,
        !.relay = TRUE, !.log = {"connected"},
        !.issued = [h \in Handlers |->
                       IF h \in {"do_write_1", "do_write_2"} THEN 0 ELSE 1],
        !.done = [h \in Handlers |->
                     IF h \in {"do_read_1", "do_read_2", "do_write_1", "do_write_2"}
                     THEN 0 ELSE 1]]

InitRelay ==
    /\ process = Serving
    /\ running = TRUE
    /\ buffer_size = 24
    /\ session_id = 1
    /\ accept_ops = 1
    /\ accept_errors = 0
    /\ clients = 0
    /\ sessions = (0 :> RelaySession)
    /\ net = (0 :> RelayNet)
    /\ hist = (0 :> RelayHist)

\* InitRelay is a state of Spec.
RelayEntered ==
    /\ buffer_size = 24 /\ session_id = 1 /\ clients = 0
    /\ sessions = (0 :> RelaySession)
    /\ net = (0 :> RelayNet)
    /\ hist = (0 :> RelayHist)

\* The steps of Next that a Session in the relay can take.
RelayNext ==
    \/ \E s \in Ids : ClientSend(s)
    \/ \E s \in Ids : ClientShutdown(s)
    \/ \E s \in Ids : ClientClose(s)
    \/ \E s \in Ids : UpstreamSend(s)
    \/ \E s \in Ids : UpstreamShutdown(s)
    \/ \E s \in Ids : UpstreamClose(s)
    \/ \E s \in Ids : RecvData(s)
    \/ \E s \in Ids : RecvEof(s)
    \/ \E s \in Ids : WriteSome(s)
    \/ \E s \in Ids : WriteError(s)
    \/ \E s \in Ids : RelayRead(s, 1)
    \/ \E s \in Ids : RelayRead(s, 2)
    \/ \E s \in Ids : RelayWritten(s, 1)
    \/ \E s \in Ids : RelayWritten(s, 2)

\* The relay of one Session from its first state on, with the handlers run
\* fairly.
FairSpec == InitRelay /\ [][RelayNext]_vars /\ HandlersRun

\* The Server accepting MaxClients clients one after the other, each of which
\* either is accepted or fails to be; an accepted client sends nothing and
\* closes its connection.
InitAccept ==
    /\ process = Serving
    /\ running = TRUE
    /\ buffer_size \in BufferSizes
    /\ session_id = 0
    /\ accept_ops = 1
    /\ accept_errors = 0
    /\ clients = MaxClients
    /\ sessions = << >>
    /\ net = << >>
    /\ hist = << >>

AcceptNext ==
    \/ AcceptOk
    \/ AcceptError
    \/ \E s \in Ids : ClientClose(s)
    \/ \E s \in Ids : RecvEof(s)
    \/ \E s \in Ids : HandshakeRead(s)

AcceptSpec == InitAccept /\ [][AcceptNext]_vars

\* Two Sessions side by side.  Session 0 has answered the greeting 05 01 00,
\* read the CONNECT request for the name "a" and resolved it, and its
\* async_connect to 10.0.0.2:443 is outstanding; Session 1 has just been
\* accepted and waits for its client's greeting.
ConnectingSession ==
    LET t0 == NewSession(0, 24)
        parsed == Fill(SelectMethod(Fill(t0.in_buf_, RelayGreeting), 0), RelayRequest)
        t1 == [t0 EXCEPT !.remote_host_ = DecodeHost(parsed, ""),
                         !.remote_port_ = DecodePort(parsed, ""),
                         !.in_buf_ = parsed]
    IN [t1 EXCEPT !.ops = {Issue(t1, "do_connect", 0, <<RelayEndpoint>>)}]

ConnectingNet == [NewNet EXCEPT !.stage = 2, !.to_client = <<5, 0>>]

ConnectingHist ==
    [NewHist EXCEPT
        !.greeting = RelayGreeting, !.scanned = Fill(NewBuffer(24), RelayGreeting),
        !.msel = <<5, 0>>, !.request = RelayRequest,
        !.resolves = <<<<"a", "443">>>>,
        !.issued = [h \in Handlers |->
                       IF h \in {"read_socks5_handshake", "write_socks5_handshake",
                                  "read_socks5_request", "do_resolve", "do_connect"}
                       THEN 1 ELSE 0],
        !.done = [h \in Handlers |->
                     IF h \in {"read_socks5_handshake", "write_socks5_handshake",
                                "read_socks5_request", "do_resolve"}
                     THEN 1 ELSE 0]]

WaitingSession ==
    LET t == NewSession(1, 24)
    IN [t EXCEPT !.ops = {Issue(t, "read_socks5_handshake", 0, <<>>)}]

WaitingHist == Noted(NewHist, WaitingSession.ops, {})

InitPair ==
    /\ process = Serving
    /\ running = TRUE
    /\ buffer_size = 24
    /\ session_id = 2
    /\ accept_ops = 1
    /\ accept_errors = 0
    /\ clients = 0
    /\ sessions = (0 :> ConnectingSession) @@ (1 :> WaitingSession)
    /\ net = (0 :> ConnectingNet) @@ (1 :> NewNet)
    /\ hist = (0 :> ConnectingHist) @@ (1 :> WaitingHist)

\* Session 0 of InitPair is a state of a Session of Spec.
ConnectingEntered ==
    /\ buffer_size = 24
    /\ sessions = (0 :> ConnectingSession)
    /\ net = (0 :> ConnectingNet)
    /\ hist = (0 :> ConnectingHist)

\* The steps of Next the two Sessions take up to the entry to the relay,
\* with clients that send nothing more.
PairNext ==
    \/ \E s \in Ids : ClientClose(s)
    \/ \E s \in Ids : UpstreamClose(s)
    \/ \E s \in Ids : RecvEof(s)
    \/ \E s \in Ids : WriteSome(s)
    \/ \E s \in Ids : WriteError(s)
    \/ \E s \in Ids : ConnectDone(s)
    \/ \E s \in Ids : HandshakeRead(s)
    \/ \E s \in Ids : Connected(s)
    \/ \E s \in Ids : ResponseWritten(s)

PairSpec == InitPair /\ [][PairNext]_vars

\* ------------------------------------------------------------ properties

AllIds == 0..1

\* The bytes the client has received after the method selection and the reply.
RelayedToClient(s) ==
    Drop(net[s].to_client, Len(hist[s].msel) + Len(hist[s].reply))

\* The first n payload bytes of the client / of the upstream peer.
ClientPayload(n) == [k \in 1..n |-> ClientByte(k)]

UpstreamPayload(n) == [k \in 1..n |-> UpstreamByte(k)]

\* C1: the server never writes a reply on a failure.  A reply is handed to
\* async_write only after the upstream connect succeeded, and its REP byte is
\* 0x00; until the connect has succeeded the client has received nothing but
\* (a prefix of) the two-byte method selection 05 00 or 05 FF, and a Session
\* that ended without a successful connect has closed the client's connection
\* with nothing else sent.
C1_NoReplyOnFailure ==
    \A s \in Ids :
        LET h == hist[s]
            sent == net[s].to_client
        IN /\ h.issued["write_socks5_response"] > 0 => h.connected
           /\ h.reply # <<>> =>
                /\ h.connected
                /\ h.reply[1] = SOCKS_VERSION
                /\ Len(h.reply) >= 2 /\ h.reply[2] = REP_SUCCEEDED
           /\ Len(sent) > GREETING_REPLY_LEN =>
                /\ h.connected
                /\ IsPrefix(Take(sent, Len(h.msel) + Len(h.reply)), h.msel \o h.reply)
           /\ ~h.connected =>
                /\ IsPrefix(sent, h.msel)
                /\ h.msel \in {<<>>, <<SOCKS_VERSION, METHOD_NO_AUTH>>,
                               <<SOCKS_VERSION, METHOD_NONE>>}
                /\ ~sessions[s].alive => ~sessions[s].in_open

\* C1's case: a Session whose upstream connect failed has ended, and the
\* client holds exactly the method selection 05 00.
C1_Witness ==
    \E s \in Ids :
        /\ ~sessions[s].alive
        /\ "failed to connect" \in hist[s].log
        /\ net[s].to_client = <<SOCKS_VERSION, METHOD_NO_AUTH>>

\* Pump A / Pump B waits in its receive and the peer has nothing in flight.
PumpAIdle(s) ==
    /\ net[s].c2s = <<>>
    /\ \E o \in sessions[s].ops : o.h = "do_read_1" /\ o.st = "pending"

PumpBIdle(s) ==
    /\ net[s].u2s = <<>>
    /\ \E o \in sessions[s].ops : o.h = "do_read_2" /\ o.st = "pending"

\* C2 as stated: whatever the client sent through an established relay the
\* upstream peer has received exactly, and the reverse, also when a peer
\* closed its side after sending -- checked on Sessions that have ended, for
\* a receiving peer that has not closed its connection.
C2_ExactDelivery ==
    \A s \in Ids :
        (hist[s].relay /\ ~sessions[s].alive) =>
            /\ net[s].up # "closed" =>
                   net[s].to_up = ClientPayload(net[s].cli_sent)
            /\ net[s].cli # "closed" =>
                   RelayedToClient(s) = UpstreamPayload(net[s].up_sent)

\* C2 as amended: the upstream peer receives the client's bytes in order
\* without loss, duplication or change (at every moment a prefix of what the
\* client sent), and exactly all of them whenever Pump A is back in its
\* receive with nothing of the client's in flight; the same for the reverse
\* direction and Pump B.  Bytes not yet relayed when a pump fails are dropped.
C2_OrderedDelivery ==
    \A s \in Ids :
        /\ IsPrefix(net[s].to_up, ClientPayload(net[s].cli_sent))
        /\ hist[s].relay =>
               IsPrefix(RelayedToClient(s), UpstreamPayload(net[s].up_sent))
        /\ PumpAIdle(s) => net[s].to_up = ClientPayload(net[s].cli_sent)
        /\ PumpBIdle(s) => RelayedToClient(s) = UpstreamPayload(net[s].up_sent)

\* C2's case: both pumps are idle after at least two bytes went each way.
C2_Witness ==
    \E s \in Ids :
        /\ PumpAIdle(s) /\ PumpBIdle(s)
        /\ net[s].cli_sent >= 2 /\ net[s].up_sent >= 2
        /\ net[s].to_up = ClientPayload(net[s].cli_sent)
        /\ RelayedToClient(s) = UpstreamPayload(net[s].up_sent)

\* C3: once a relay handler has observed a failed receive or write (EOF
\* included) and returned, both sockets of the Session are closed.
C3_ErrorClosesBoth ==
    \A s \in Ids :
        hist[s].relay_err => ~sessions[s].in_open /\ ~sessions[s].out_open

\* C3's case: a relay handler has failed and returned while the Session is
\* still held by the other pump's operation.
C3_Witness ==
    \E s \in Ids :
        /\ hist[s].relay_err
        /\ sessions[s].alive
        /\ ~sessions[s].in_open /\ ~sessions[s].out_open

\* C5 as stated: after a relay handler has closed the sockets, or a handshake
\* step has rejected the client, both sockets are closed and the Session
\* issues no further operation.
C5_NoIoAfterClosed ==
    \A s \in Ids :
        /\ hist[s].relay_err =>
               /\ ~sessions[s].in_open /\ ~sessions[s].out_open
               /\ hist[s].late_ops = {}
        /\ ~sessions[s].alive =>
               /\ ~sessions[s].in_open /\ ~sessions[s].out_open
               /\ sessions[s].ops = {}

\* C4: a Session is held exactly as long as one of its operations is
\* outstanding, and once either socket of a relaying Session is closed the
\* Session is eventually released: the other pump ends too, and no operation
\* stays outstanding.
C4_BothPumpsEnd ==
    /\ [](\A s \in Ids : sessions[s].alive <=> sessions[s].ops # {})
    /\ \A s \in AllIds :
          (s \in Ids /\ hist[s].relay
             /\ (~sessions[s].in_open \/ ~sessions[s].out_open))
          ~> (s \in Ids /\ ~sessions[s].alive)

\* C4's case: one pump has failed and closed the sockets while the other
\* pump's operation is still outstanding.
C4_Witness ==
    \E s \in Ids :
        /\ hist[s].relay_err
        /\ \E o \in sessions[s].ops : o.h \in {"do_read_2", "do_write_2"}
        /\ \A o \in sessions[s].ops : o.h \in {"do_read_2", "do_write_2"}

\* Whether 0x00 occurs in buf[2 .. 2+n), n = buf[1], at an index of the buffer.
OffersNoAuth(buf) ==
    \E i \in 2..(1 + At(buf, 1, 0)) : i < Len(buf) /\ buf[i + 1] = METHOD_NO_AUTH

\* The handler of the method selection's write has run after a successful
\* write.
SelectionWritten(s) ==
    /\ running
    /\ hist[s].issued["write_socks5_handshake"] = 1
    /\ \A o \in sessions[s].ops : o.h # "write_socks5_handshake"
    /\ "handshake response write error" \notin hist[s].log

\* C6 as stated: for a greeting of at least 3 bytes that starts with 0x05
\* the server hands exactly two bytes to the write: 05 00 if 0x00 occurs in
\* in_buf[2 .. 2+n), n = in_buf[1], and 05 FF otherwise; after the write of
\* 05 00 succeeded the request receive is issued, after the write of 05 FF
\* succeeded the Session is closed and no request is read.
C6_MethodSelection ==
    \A s \in Ids :
        LET h == hist[s]
            g == h.greeting
            sent == Take(net[s].to_client, GREETING_REPLY_LEN)
        IN (Len(g) >= MIN_GREETING /\ g[1] = SOCKS_VERSION) =>
              /\ h.msel = <<SOCKS_VERSION,
                            IF OffersNoAuth(h.scanned) THEN METHOD_NO_AUTH
                                                       ELSE METHOD_NONE>>
              /\ h.issued["write_socks5_handshake"] = 1
              /\ IsPrefix(sent, h.msel)
              /\ h.issued["read_socks5_request"] > 0 =>
                     h.msel[2] = METHOD_NO_AUTH /\ sent = h.msel
              /\ SelectionWritten(s) =>
                     IF h.msel[2] = METHOD_NO_AUTH
                     THEN h.issued["read_socks5_request"] = 1
                     ELSE /\ ~sessions[s].alive /\ ~sessions[s].in_open
                          /\ h.issued["read_socks5_request"] = 0
                          /\ h.request = <<>>

\* C7: when the first receive completed with fewer than 3 bytes or with a
\* first byte other than 0x05, the Session is closed: nothing was written to
\* the client and no operation was issued after that receive.
C7_InvalidGreetingCloses ==
    \A s \in Ids :
        LET h == hist[s]
            g == h.greeting
        IN (g # <<>> /\ (Len(g) < MIN_GREETING \/ g[1] # SOCKS_VERSION)) =>
              /\ ~sessions[s].alive
              /\ ~sessions[s].in_open /\ ~sessions[s].out_open
              /\ net[s].to_client = <<>>
              /\ h.msel = <<>>
              /\ "handshake request is invalid" \in h.log
              /\ \A k \in Handlers :
                    h.issued[k] = IF k = "read_socks5_handshake" THEN 1 ELSE 0

\* C7's case: the greeting 04 01 00 was received whole and rejected, and the
\* client, still connected, has received nothing.
C7_Witness ==
    \E s \in Ids :
        /\ hist[s].greeting = <<4, 1, 0>>
        /\ ~sessions[s].alive
        /\ net[s].cli = "open"
        /\ net[s].to_client = <<>>

\* The request r (the bytes its receive completed with) is one READ_REQUEST
\* rejects: too short, wrong version, not CONNECT, or of a length that does
\* not fit its address type.
RequestRejected(r) ==
    \/ Len(r) < MIN_REQUEST
    \/ r[1] # SOCKS_VERSION
    \/ r[2] # CMD_CONNECT
    \/ r[4] = ATYP_IPV4 /\ Len(r) # 10
    \/ r[4] = ATYP_DOMAIN /\ Len(r) # 5 + r[5] + 2
    \/ r[4] = ATYP_IPV6 /\ Len(r) # 22

\* The host and the port an accepted request r names, as text.
RequestedHost(r) ==
    CASE r[4] = ATYP_IPV4 ->
           ToString(r[5]) \o "." \o ToString(r[6]) \o "." \o ToString(r[7])
               \o "." \o ToString(r[8])
      [] r[4] = ATYP_DOMAIN -> StringAt(r, 5, r[5], 0)
      [] OTHER -> AddressV6ToString(SubSeq(r, 5, 20))

RequestedPort(r) ==
    LET at == CASE r[4] = ATYP_IPV4 -> 9 [] r[4] = ATYP_DOMAIN -> 6 + r[5] [] OTHER -> 21
    IN ToString((256 * r[at]) + r[at + 1])

\* C8: a request that is too short, has a version other than 0x05 or a
\* command other than 0x01, or whose length does not fit its address type
\* (10 for 0x01, 5 + in_buf[4] + 2 for 0x03, 22 for 0x04) closes the Session:
\* the resolver is never invoked and the client receives nothing beyond the
\* method selection.  Any other request of a recognized address type invokes
\* the resolver exactly once, with the host and the port the request names.
C8_RequestValidation ==
    \A s \in Ids :
        LET h == hist[s]
            r == h.request
        IN r # <<>> =>
              /\ RequestRejected(r) =>
                    /\ ~sessions[s].alive
                    /\ ~sessions[s].in_open /\ ~sessions[s].out_open
                    /\ h.resolves = <<>>
                    /\ h.issued["do_resolve"] = 0 /\ h.issued["do_connect"] = 0
                    /\ h.reply = <<>>
                    /\ net[s].to_client = h.msel
              /\ (~RequestRejected(r) /\ r[4] \in {ATYP_IPV4, ATYP_DOMAIN, ATYP_IPV6}) =>
                    /\ h.resolves = << <<RequestedHost(r), RequestedPort(r)>> >>
                    /\ h.issued["do_resolve"] = 1

\* C8's case: the IPv6 request for [::1]:443 was accepted and the resolver
\* invoked once with "::1" and "443".
C8_Witness ==
    \E s \in Ids :
        /\ Len(hist[s].request) = IPV6_REQUEST_LEN
        /\ hist[s].request[4] = ATYP_IPV6
        /\ hist[s].resolves = << <<"::1", "443">> >>

\* C9 as stated: a request with version 0x05, command 0x01, at least 5 bytes
\* and an address type other than 0x01, 0x03 and 0x04 is logged as of an
\* unsupported address type and closes the Session: the resolver is never
\* invoked, no connect is attempted, nothing is written to the client.
C9_UnsupportedAtypCloses ==
    \A s \in Ids :
        LET h == hist[s]
            r == h.request
        IN (/\ Len(r) >= MIN_REQUEST
            /\ r[1] = SOCKS_VERSION /\ r[2] = CMD_CONNECT
            /\ r[4] \notin {ATYP_IPV4, ATYP_DOMAIN, ATYP_IPV6}) =>
              /\ "unsupported address type" \in h.log
              /\ h.resolves = <<>>
              /\ h.issued["do_resolve"] = 0 /\ h.issued["do_connect"] = 0
              /\ ~sessions[s].alive
              /\ net[s].to_client = h.msel

\* The reply for the endpoint ep: 05 00 00, the address type, the address
\* and the port in network byte order.
ExpectedReply(ep) ==
    <<SOCKS_VERSION, REP_SUCCEEDED, 0>>
        \o <<IF ep.fam = "v4" THEN ATYP_IPV4 ELSE ATYP_IPV6>>
        \o ep.addr
        \o <<ep.port \div 256, ep.port % 256>>

\* C10 as stated: after a successful connect the reply handed to the write
\* is 05 00 00, then 01 with the 4-byte address and the port of out_socket's
\* remote endpoint (10 bytes) if that endpoint is IPv4, or 04 with its
\* 16-byte address and the port (22 bytes) if it is IPv6, whatever the
\* address type of the request; the client receives nothing else before the
\* relay's bytes.
C10_ReplyFollowsEndpoint ==
    \A s \in Ids :
        LET h == hist[s]
            ep == h.reply_ep
        IN h.issued["write_socks5_response"] > 0 =>
              /\ h.connected
              /\ ep = sessions[s].remote_ep
              /\ ep.fam \in {"v4", "v6"}
              /\ Len(h.reply) = IF ep.fam = "v4" THEN 10 ELSE 22
              /\ h.reply = ExpectedReply(ep)
              /\ IsPrefix(Take(net[s].to_client, Len(h.msel) + Len(h.reply)),
                          h.msel \o h.reply)

\* C11 as stated: whatever fails in one Session, the executor keeps running
\* and the Acceptor keeps its accept outstanding, and a step that changes one
\* Session leaves every other Session as it was.
C11_ErrorsStayLocal ==
    [][ /\ running'
        /\ accept_ops' = 1
        /\ \A s \in Ids :
              sessions'[s] # sessions[s] =>
                 \A t \in Ids \ {s} : sessions'[t] = sessions[t] ]_vars

\* C12: while the server runs exactly one accept is outstanding: every
\* accept completion, successful or failed, issues one new accept.  A failed
\* accept creates no Session and leaves the session id counter as it was.
C12_AcceptRearmed ==
    /\ [](running => accept_ops = 1)
    /\ [][ /\ accept_errors' # accept_errors =>
                 /\ accept_ops' = 1
                 /\ sessions' = sessions
                 /\ session_id' = session_id
           /\ DOMAIN sessions' # DOMAIN sessions => accept_ops' = 1 ]_vars

\* C12's case: an accept has failed between two successful ones, and accept
\* is outstanding again.
C12_Witness ==
    /\ running /\ accept_ops = 1
    /\ accept_errors = 1
    /\ DOMAIN sessions = {0, 1}
    /\ session_id = 2

\* The client of s has sent the greeting 05 01 00 and nothing else, and the
\* handler of the first receive has taken the start of it.
GreetingTaken(s) ==
    /\ net[s].stage = 1
    /\ hist[s].greeting # <<>>
    /\ hist[s].greeting \o net[s].c2s = <<5, 1, 0>>

\* C13 as stated, for its first step: with buffer_size = 1 a client that has
\* sent the well-formed greeting 05 01 00 and keeps its connection open is
\* served: its Session is not closed and the greeting is not rejected (the
\* method selection, the reply and the relay are still to come).
C13_OneByteBufferServes ==
    \A s \in Ids :
        (buffer_size = 1 /\ running /\ GreetingTaken(s) /\ net[s].cli = "open") =>
            /\ sessions[s].alive
            /\ sessions[s].in_open
            /\ "handshake request is invalid" \notin hist[s].log

\* The operations of kind k that s has issued and whose handler has not run.
Outstanding(s, k) == hist[s].issued[k] - hist[s].done[k]

\* The operations of s among `kinds` that run on socket `sock`.
OpsOn(s, sock, kinds) ==
    {o \in sessions[s].ops : o.h \in kinds /\ SocketOf(o.h) = sock}

\* C14: on each of in_socket and out_socket at most one receive and at most
\* one write of a Session are outstanding (issued, handler not yet run); in
\* the relay the receive on in_socket is Pump A's (do_read 1) and the write
\* on it Pump B's (do_write 2), and on out_socket the receive is Pump B's
\* (do_read 2) and the write Pump A's (do_write 1).
C14_OneReadOneWritePerSocket ==
    \A s \in Ids :
        /\ sessions[s].alive =>
              \A k \in Handlers :
                 Outstanding(s, k) = Cardinality({o \in sessions[s].ops : o.h = k})
        /\ \A sock \in {"in", "out"} :
              /\ Cardinality(OpsOn(s, sock, RecvHandlers)) <= 1
              /\ Cardinality(OpsOn(s, sock, WriteHandlers)) <= 1
        /\ hist[s].relay =>
              /\ \A o \in OpsOn(s, "in", RecvHandlers) : o.h = "do_read_1"
              /\ \A o \in OpsOn(s, "in", WriteHandlers) : o.h = "do_write_2"
              /\ \A o \in OpsOn(s, "out", RecvHandlers) : o.h = "do_read_2"
              /\ \A o \in OpsOn(s, "out", WriteHandlers) : o.h = "do_write_1"

\* C14's case: in the relay a receive and a write are outstanding on
\* in_socket at once, Pump A's receive and Pump B's write.
C14_Witness ==
    \E s \in Ids :
        /\ hist[s].relay
        /\ \E o \in sessions[s].ops : o.h = "do_read_1" /\ o.st = "pending"
        /\ \E o \in sessions[s].ops : o.h = "do_write_2" /\ o.st = "pending"

C16_ExitCodes ==
    /\ process.argc # 2 => process.exit_code = 1
    /\ process.caught => process.exit_code \notin {NotExited, 0}
    /\ (process.argc = 2 /\ ~process.caught /\ process.exit_code # NotExited) =>
           process.exit_code = 0

\* The operations of the phases before the relay, and for each the operation
\* of the phase before it.
PreRelay ==
    {"read_socks5_handshake", "write_socks5_handshake", "read_socks5_request",
     "do_resolve", "do_connect", "write_socks5_response"}

PhaseBefore(k) ==
    CASE k = "write_socks5_handshake" -> "read_socks5_handshake"
      [] k = "read_socks5_request" -> "write_socks5_handshake"
      [] k = "do_resolve" -> "read_socks5_request"
      [] k = "do_connect" -> "do_resolve"
      [] k = "write_socks5_response" -> "do_connect"
      [] OTHER -> "write_socks5_response"

\* C17: within a Session the operation of each phase is issued at most once,
\* and only by the handler of the preceding phase's operation after that
\* operation succeeded (the relay's first receives by the handler of the
\* reply's write); before the relay at most one operation is outstanding and
\* nothing has been issued on out_socket but the connect.
C17_PhasesInOrder ==
    /\ [](\A s \in Ids :
            LET h == hist[s]
            IN /\ \A k \in PreRelay : h.issued[k] <= 1
               /\ \A k \in Handlers \ {"read_socks5_handshake"} :
                     h.issued[k] > 0 =>
                        h.issued[PhaseBefore(k)] = 1 /\ h.done[PhaseBefore(k)] = 1
               /\ ~h.relay =>
                     /\ Cardinality(sessions[s].ops) <= 1
                     /\ \A k \in Handlers \ PreRelay : h.issued[k] = 0
               /\ h.relay =>
                     IsPrefix(h.msel \o h.reply, net[s].to_client))
    /\ [][ \A s \in Ids :
             /\ \A k \in PreRelay \ {"read_socks5_handshake"} :
                   hist'[s].issued[k] > hist[s].issued[k] =>
                      \E o \in sessions[s].ops : o.h = PhaseBefore(k) /\ o.st = "ok"
             /\ hist'[s].issued["read_socks5_handshake"]
                    = hist[s].issued["read_socks5_handshake"]
             /\ (hist'[s].relay /\ ~hist[s].relay) =>
                   /\ \E o \in sessions[s].ops :
                         o.h = "write_socks5_response" /\ o.st = "ok"
                   /\ hist'[s].issued["do_read_1"] = 1
                   /\ hist'[s].issued["do_read_2"] = 1 ]_vars

\* C17's case: a Session has gone through all six phases, each operation
\* issued once, and has entered the relay.
C17_Witness ==
    \E s \in Ids :
        /\ hist[s].relay
        /\ \A k \in PreRelay : hist[s].issued[k] = 1 /\ hist[s].done[k] = 1
        /\ \E o \in sessions[s].ops : o.h = "do_read_2" /\ o.st = "pending"

\* The log lines of the error branches of the six handlers before the relay.
PreRelayErrors ==
    {"handshake request error", "handshake response write error",
     "request read error", "failed to resolve", "failed to connect",
     "response write error"}

\* C18: once the operation of a phase before the relay has completed with
\* an error and its handler has run, the Session is released with both
\* sockets closed and no operation outstanding, it has not entered the
\* relay, and from then on it issues nothing and the client receives
\* nothing more.
C18_PreRelayErrorCloses ==
    /\ [](\A s \in Ids :
            hist[s].log \cap PreRelayErrors # {} =>
               /\ ~sessions[s].alive
               /\ ~sessions[s].in_open /\ ~sessions[s].out_open
               /\ sessions[s].ops = {}
               /\ ~hist[s].relay
               /\ \A k \in Handlers :
                     /\ hist[s].issued[k] = hist[s].done[k]
                     /\ k \notin PreRelay => hist[s].issued[k] = 0)
    /\ [][ \A s \in Ids :
             hist[s].log \cap PreRelayErrors # {} =>
                /\ sessions'[s] = sessions[s]
                /\ hist'[s] = hist[s]
                /\ net'[s].to_client = net[s].to_client ]_vars

\* C18's case: the resolver has failed for a request, and the Session has
\* ended with only the method selection sent.
C18_Witness ==
    \E s \in Ids :
        /\ "failed to resolve" \in hist[s].log
        /\ ~sessions[s].alive
        /\ net[s].to_client = <<SOCKS_VERSION, METHOD_NO_AUTH>>

\* The receive, the write and the buffer of relay direction d.
ReadOf(d) == IF d = 1 THEN "do_read_1" ELSE "do_read_2"

WriteOf(d) == IF d = 1 THEN "do_write_1" ELSE "do_write_2"

BufferIn(t, d) == IF d = 1 THEN t.in_buf_ ELSE t.out_buf_

\* C19: in each relay direction at most one operation is outstanding, the
\* receive or the write, and they alternate: a write is issued only by the
\* handler of the direction's successful receive, a receive after the first
\* only by the handler of the direction's successful write, and the
\* direction's buffer does not change while a write from it is pending.
C19_PumpAlternates ==
    /\ [](\A s \in Ids : \A d \in {1, 2} :
            LET h == hist[s]
            IN /\ Cardinality({o \in sessions[s].ops : o.h \in {ReadOf(d), WriteOf(d)}}) <= 1
               /\ sessions[s].alive =>
                     Outstanding(s, ReadOf(d)) + Outstanding(s, WriteOf(d)) <= 1
               /\ h.issued[WriteOf(d)] <= h.issued[ReadOf(d)]
               /\ h.issued[ReadOf(d)] <= h.issued[WriteOf(d)] + 1)
    /\ [][ \A s \in Ids : \A d \in {1, 2} :
             /\ hist'[s].issued[WriteOf(d)] > hist[s].issued[WriteOf(d)] =>
                   \E o \in sessions[s].ops : o.h = ReadOf(d) /\ o.st = "ok"
             /\ (hist'[s].issued[ReadOf(d)] > hist[s].issued[ReadOf(d)]
                    /\ hist[s].issued[ReadOf(d)] > 0) =>
                   \E o \in sessions[s].ops : o.h = WriteOf(d) /\ o.st = "ok"
             /\ (\E o \in sessions[s].ops : o.h = WriteOf(d) /\ o.st = "pending") =>
                   BufferIn(sessions'[s], d) = BufferIn(sessions[s], d) ]_vars

\* C19's case: Pump A's write is pending with nothing of it transmitted yet
\* while the client's next byte is waiting to be received.
C19_Witness ==
    \E s \in Ids :
        /\ \E o \in sessions[s].ops : o.h = "do_write_1" /\ o.st = "pending"
        /\ net[s].c2s # <<>>
        /\ net[s].to_up = <<>>

\* C20 as stated: a Session is held as long as one of its operations is
\* outstanding and no longer; it is released by the step in which the
\* handler of its last operation has run without issuing another, and a
\* released Session has both sockets closed.
C20_ReleasedWithLastHandler ==
    /\ [](\A s \in Ids :
            /\ sessions[s].ops # {} => sessions[s].alive
            /\ ~sessions[s].alive => ~sessions[s].in_open /\ ~sessions[s].out_open)
    /\ [][ \A s \in Ids :
             /\ (sessions[s].alive /\ ~sessions'[s].alive) =>
                   \E op \in sessions[s].ops :
                      /\ sessions[s].ops = {op}
                      /\ op.st # "pending"
                      /\ hist'[s].done[op.h] = hist[s].done[op.h] + 1
                      /\ hist'[s].issued = hist[s].issued
             /\ (sessions[s].alive /\ sessions'[s].alive) => sessions'[s].ops # {} ]_vars

\* Whether 0x00 occurs among the method bytes of the received greeting g:
\* at an index i with 2 <= i < min(2 + n, length), n = g[1].
ReceivedNoAuth(g) ==
    \E i \in 2..(Min(2 + g[2], Len(g)) - 1) : g[i + 1] = METHOD_NO_AUTH

\* C21 as stated: the server answers 05 00 only if 0x00 occurs among the
\* method bytes it received in that greeting; what in_buf holds beyond the
\* received length has no part in the selection.  (Stated for the greetings
\* whose scan stays inside in_buf, 2 + n <= buffer_size; the others are
\* C23's.)
C21_OnlyReceivedMethods ==
    \A s \in Ids :
        LET h == hist[s]
        IN (/\ h.msel # <<>> /\ h.msel[2] = METHOD_NO_AUTH
            /\ 2 + h.greeting[2] <= buffer_size) =>
              ReceivedNoAuth(h.greeting)

\* C22: at every point of a relay what has been written to out_socket is a
\* prefix of what the relay's receives have taken from in_socket since the
\* reply was written, and what has been written to in_socket after the reply
\* is a prefix of what they have taken from out_socket: nothing is duplicated,
\* reordered or skipped, and the upstream peer gets payload bytes only, none
\* of the greeting, the request or the reply.
C22_RelayForwardsReceived ==
    \A s \in Ids :
        /\ IsPrefix(net[s].to_up, hist[s].received[1])
        /\ IsPrefix(RelayedToClient(s), hist[s].received[2])
        /\ ~hist[s].relay => hist[s].received = <<<<>>, <<>>>>
        /\ \A i \in 1..Len(net[s].to_up) :
               \E k \in 1..MaxPayload : net[s].to_up[i] = ClientByte(k)

\* C22's case: a relay has received two bytes from the client in one receive
\* and written the first of them only, while bytes of the upstream peer have
\* reached the client.
C22_Witness ==
    \E s \in Ids :
        /\ hist[s].relay
        /\ Len(hist[s].received[1]) = 2
        /\ Len(net[s].to_up) = 1
        /\ RelayedToClient(s) # <<>>
        /\ hist[s].issued["do_write_1"] = 1

\* C23 as stated: for every buffer_size >= 1 and every client input, every
\* index of in_buf or out_buf that greeting parsing, request parsing, reply
\* construction or the relay reads or writes is smaller than buffer_size: the
\* two vectors keep their size, the scan of the methods stays inside in_buf,
\* and a reply is built only where in_buf holds all of it.
C23_AccessesInsideBuffers ==
    \A s \in Ids :
        /\ Len(sessions[s].in_buf_) = buffer_size
        /\ Len(sessions[s].out_buf_) = buffer_size
        /\ ~hist[s].oob
        /\ hist[s].reply_ep # NoEndpoint => ReplyLength(hist[s].reply_ep) <= buffer_size

====
